---- MODULE Spec2Model ----
(***************************************************************************)
(* Model of the blob recognition pipeline (src/app/usecase.py and          *)
(* src/app/lambdas.py): the use-cases InitializeUploadListening,           *)
(* CheckUploading, StartRecognition, GetLabels, TransformLabels,           *)
(* SaveLabels, InvokeCallback, HandleUnexpectedError and                   *)
(* GetRecognitionResult, each invoked by an external trigger, sharing only *)
(* the DynamoDB blob table.                                                *)
(*                                                                         *)
(* The DynamoDB, S3 and step-function clients and the RecognitionStatus    *)
(* enum are not part of the sources at hand; they are modelled from their  *)
(* interface (create / get_blob / update_status / save_labels, launch,     *)
(* generate_presigned_url / is_uploaded).                                  *)
(***************************************************************************)
EXTENDS Integers, Sequences, FiniteSets, TLC

VARIABLES
    store,      \* blob table: a function from the ids that have a record to the record
    s3,         \* set of blob ids whose object is in the bucket
    presigned,  \* set of blob ids for which a pre-signed upload url was issued
    reg,        \* the registration invocation in flight (InitializeUploadListening)
    watch,      \* per blob: the uploading step function and its CheckUploading call
    notif,      \* per blob: pending "object created" notifications
    trig,       \* per blob: the StartRecognition invocation in flight
    execs,      \* recognition step-function executions, in launch order
    budget,     \* the irregular events so far
    response    \* the answer to the most recent call of the http api

vars == <<store, s3, presigned, reg, watch, notif, trig, execs, budget, response>>

----------------------------------------------------------------------------
(* Bounds of the model. *)

\* Events beyond the nominal run, counted together: an upload of a blob
\* already uploaded, a step or notification delivered once more, a
\* collaborator failing with an unclassified error.
MaxIrregular == 1

\* The ids that get a record, and the id drawn for a request once they are
\* used up (such a request is made with an invalid url only: see
\* InitializeValidateAndCreate).
BlobIds == {"b1"}
SpareId == "b0"

----------------------------------------------------------------------------
(* RecognitionStatus values, as usecase.py names them. *)

WAITING_FOR_UPLOAD == "WAITING_FOR_UPLOAD"
UPLOAD_TIMED_OUT == "UPLOAD_TIMED_OUT"
IN_PROGRESS == "IN_PROGRESS"
INVALID_BLOB_HAS_BEEN_UPLOADED == "INVALID_BLOB_HAS_BEEN_UPLOADED"
TOO_LARGE_BLOB_HAS_BEEN_UPLOADED == "TOO_LARGE_BLOB_HAS_BEEN_UPLOADED"
UNEXPECTED_ERROR == "UNEXPECTED_ERROR"
SUCCESS == "SUCCESS"
FAILED_DUE_TO_CALLBACK_FAILURE == "FAILED_DUE_TO_CALLBACK_FAILURE"
FAILED_DUE_TO_CALLBACK_TIME_OUT == "FAILED_DUE_TO_CALLBACK_TIME_OUT"
FAILED_DUE_TO_CALLBACK_CONNECTION == "FAILED_DUE_TO_CALLBACK_CONNECTION"
NOT_FOUND == "NOT_FOUND"

Statuses ==
    { WAITING_FOR_UPLOAD, UPLOAD_TIMED_OUT, IN_PROGRESS,
      INVALID_BLOB_HAS_BEEN_UPLOADED, TOO_LARGE_BLOB_HAS_BEEN_UPLOADED,
      UNEXPECTED_ERROR, SUCCESS, FAILED_DUE_TO_CALLBACK_FAILURE,
      FAILED_DUE_TO_CALLBACK_TIME_OUT, FAILED_DUE_TO_CALLBACK_CONNECTION }

----------------------------------------------------------------------------
(* Values. *)

\* A url is kept as its parts; pad says that whitespace surrounds it.
Url(scheme, host, pad) == [scheme |-> scheme, host |-> host, pad |-> pad]

EmptyUrl == Url("", "", FALSE)

\* What a request body can carry as callback_url; a body without the key
\* gives '' (lambdas.py, get_callback_url_from_event).
CallbackUrls ==
    { Url("https", "example.com", FALSE),
      Url("http", "example.org", FALSE),
      Url("https", "example.com", TRUE),
      Url("ftp", "example.com", FALSE),
      EmptyUrl }

\* dict.get(key, default)
Get(d, key, default) == IF key \in DOMAIN d THEN d[key] ELSE default

Cat == [Name |-> "Cat", Confidence |-> "98.1", Parents |-> <<[Name |-> "Animal"], [Name |-> "Pet"]>>]
Sky == [Name |-> "Sky", Confidence |-> "71.5", Parents |-> <<>>]
Blur == [Confidence |-> "12.0"]
Dim == [Name |-> "Dim", Parents |-> <<[Name |-> "Light"], [Kind |-> "unnamed"]>>]

\* What Rekognition's detect_labels can answer.
RawPayloads ==
    { [Labels |-> <<Cat, Sky>>],
      [Labels |-> <<Blur, Dim>>] }

NoRaw == [Labels |-> <<>>]
NoLabels == <<>>

\* Python's None and a present value, for an attribute that may be unset.
None == <<>>
Some(x) == <<x>>

NoPayload == [none |-> TRUE]
NoReturn == [none |-> TRUE]

----------------------------------------------------------------------------
(* The blob table (blob_dynamodb_client), from its interface: every call   *)
(* is one atomic read or write of the record under the given id.           *)

\* create(blob_id, callback_url, status): a new item, without labels.
Create(st, id, url, status) ==
    [b \in DOMAIN st \cup {id} |->
        IF b = id
        THEN [callback_url |-> url, status |-> status, labels |-> None]
        ELSE st[b]]

\* update_status(blob_id, status): sets the status attribute, whatever it was.
\* No step of the model runs for an id without a record.
UpdateStatus(st, id, status) ==
    IF id \in DOMAIN st THEN [st EXCEPT ![id].status = status] ELSE st

\* save_labels(blob_id, labels): sets the labels attribute.
SaveLabelsToStore(st, id, labels) ==
    IF id \in DOMAIN st THEN [st EXCEPT ![id].labels = Some(labels)] ELSE st

\* get_blob(blob_id) is st[id] when HasBlob, and None otherwise.
HasBlob(st, id) == id \in DOMAIN st

\* generate_presigned_url(blob_id)
PresignedUrl(id) == [upload_target_for |-> id]

----------------------------------------------------------------------------
(* UrlValidator and the handler's reading of the request. *)

Schemes == {"http", "https"}

\* get_callback_url_from_event: body.get('callback_url', '').strip()
Strip(url) == [url EXCEPT !.pad = FALSE]

\* UrlValidator.is_valid_url: marshmallow's URL(schemes=['http', 'https'])
\* accepts an absolute url with one of the schemes and a host.
is_valid_url(url) == url.scheme \in Schemes /\ url.host /= "" /\ ~url.pad

----------------------------------------------------------------------------
(* The use-cases, as functions of the table and the collaborators' answers. *)

\* A watchdog that marks the time-out whatever is_uploaded answers (a variant
\* of CheckUploadingStore, used to test C12).
CheckUploadingStoreAlways(st, blob_id, uploaded) ==
    UpdateStatus(st, blob_id, UPLOAD_TIMED_OUT)

\* CheckUploading.__call__, the table after it, given is_uploaded's answer.
CheckUploadingStore(st, blob_id, uploaded) ==
    IF uploaded THEN st ELSE UpdateStatus(st, blob_id, UPLOAD_TIMED_OUT)

\* A trigger that takes a second notification for a blob in progress as an
\* error (a variant of StartRecognitionStore, used to test C5).
StartRecognitionStoreOnce(st, blob_id) ==
    IF HasBlob(st, blob_id) /\ st[blob_id].status = IN_PROGRESS
    THEN UpdateStatus(st, blob_id, UNEXPECTED_ERROR)
    ELSE UpdateStatus(st, blob_id, IN_PROGRESS)

\* StartRecognition.__call__, the table after its update_status.
StartRecognitionStore(st, blob_id) == UpdateStatus(st, blob_id, IN_PROGRESS)

\* What detect_labels answers: a payload, or one of the two classified errors.
DetectAnswers ==
    { [kind |-> "ok", raw |-> r] : r \in RawPayloads }
        \cup { [kind |-> "InvalidBlobHasBeenUploaded", raw |-> NoRaw],
               [kind |-> "TooLargeBlobHasBeenUploaded", raw |-> NoRaw] }

\* The except branches with their statuses exchanged (a variant of
\* GetLabelsStore, used to test C8).
GetLabelsStoreSwapped(st, blob_id, ans) ==
    IF ans.kind = "InvalidBlobHasBeenUploaded"
    THEN UpdateStatus(st, blob_id, TOO_LARGE_BLOB_HAS_BEEN_UPLOADED)
    ELSE IF ans.kind = "TooLargeBlobHasBeenUploaded"
    THEN UpdateStatus(st, blob_id, INVALID_BLOB_HAS_BEEN_UPLOADED)
    ELSE st

\* GetLabels.__call__: the table after it.
GetLabelsStore(st, blob_id, ans) ==
    IF ans.kind = "InvalidBlobHasBeenUploaded"
    THEN UpdateStatus(st, blob_id, INVALID_BLOB_HAS_BEEN_UPLOADED)
    ELSE IF ans.kind = "TooLargeBlobHasBeenUploaded"
    THEN UpdateStatus(st, blob_id, TOO_LARGE_BLOB_HAS_BEEN_UPLOADED)
    ELSE st

\* GetLabels.__call__: what it raises ("none": it returns).
GetLabelsRaised(ans) ==
    IF ans.kind \in {"InvalidBlobHasBeenUploaded", "TooLargeBlobHasBeenUploaded"}
    THEN "RecognitionStepHasBeenFailed"
    ELSE "none"

\* GetLabels.__call__: RecognitionStepFunctionResult(blob_id, labels=raw_labels_data)
GetLabelsReturn(blob_id, ans) == [blob_id |-> blob_id, labels |-> ans.raw]

\* A normalizer that returns the labels in the opposite order (a variant of
\* Transform, used to test C14).
TransformReversed(raw_labels_data) ==
    LET labels == raw_labels_data.Labels
        n == Len(labels)
        Parents(label) == Get(label, "Parents", <<>>)
    IN  [i \in 1..n |->
            [label |-> Get(labels[n + 1 - i], "Name", ""),
             confidence |-> Get(labels[n + 1 - i], "Confidence", ""),
             parents |-> [j \in 1..Len(Parents(labels[n + 1 - i])) |->
                              Get(Parents(labels[n + 1 - i])[j], "Name", "")]]]

\* TransformLabels._transform
Transform(raw_labels_data) ==
    LET labels == raw_labels_data.Labels
        Parents(label) == Get(label, "Parents", <<>>)
    IN  [i \in 1..Len(labels) |->
            [label |-> Get(labels[i], "Name", ""),
             confidence |-> Get(labels[i], "Confidence", ""),
             parents |-> [j \in 1..Len(Parents(labels[i])) |->
                              Get(Parents(labels[i])[j], "Name", "")]]]

\* TransformLabels.__call__
TransformLabelsReturn(blob_id, raw_labels_data) ==
    [blob_id |-> blob_id, labels |-> Transform(raw_labels_data)]

\* A persister that passes the labels on without storing them (a variant of
\* SaveLabelsStore, used to test C15).
SaveLabelsStoreNothing(st, blob_id, labels) == st

\* SaveLabels.__call__
SaveLabelsStore(st, blob_id, labels) == SaveLabelsToStore(st, blob_id, labels)

SaveLabelsReturn(blob_id, labels) == [blob_id |-> blob_id, labels |-> labels]

\* Invoker's result codes.
Invoker_SUCCESS == 0
Invoker_CALLBACK_FAILURE == 1
Invoker_CONNECTION_TIMEOUT == 2
Invoker_CONNECTION_ERROR == 3

\* What the http call (requests, with timeout=...) can do: answer with a status
\* code, or raise. requests raises ConnectTimeout when the connection is not
\* made in time, ConnectionError when it cannot be made, and ReadTimeout (a
\* Timeout that is no ConnectionError) when the server accepts the connection
\* and does not answer in time.
StatusCodes == {204, 200, 500}

HttpOutcomes ==
    { [kind |-> "response", status_code |-> c] : c \in StatusCodes }
        \cup { [kind |-> k, status_code |-> 0] :
                   k \in {"ConnectTimeout", "ConnectionError", "ReadTimeout"} }

\* Invoker.invoke: the code it returns, or the exception it lets through.
InvokerInvoke(http) ==
    IF http.kind = "response"
    THEN [raised |-> "none",
          status |-> IF http.status_code = 204 THEN Invoker_SUCCESS
                     ELSE Invoker_CALLBACK_FAILURE]
    ELSE IF http.kind = "ConnectTimeout"
    THEN [raised |-> "none", status |-> Invoker_CONNECTION_TIMEOUT]
    ELSE IF http.kind = "ConnectionError"
    THEN [raised |-> "none", status |-> Invoker_CONNECTION_ERROR]
    ELSE [raised |-> http.kind, status |-> -1]

\* InvokeCallback.__call__: the table after it, by the if/elif chain over status.
InvokeCallbackStore(st, blob_id, http) ==
    LET r == InvokerInvoke(http)
    IN  IF r.raised /= "none" THEN st
        ELSE IF r.status = Invoker_SUCCESS
        THEN UpdateStatus(st, blob_id, SUCCESS)
        ELSE IF r.status = Invoker_CALLBACK_FAILURE
        THEN UpdateStatus(st, blob_id, FAILED_DUE_TO_CALLBACK_FAILURE)
        ELSE IF r.status = Invoker_CONNECTION_TIMEOUT
        THEN UpdateStatus(st, blob_id, FAILED_DUE_TO_CALLBACK_TIME_OUT)
        ELSE IF r.status = Invoker_CONNECTION_ERROR
        THEN UpdateStatus(st, blob_id, FAILED_DUE_TO_CALLBACK_CONNECTION)
        ELSE st

\* InvokeCallback.__call__: what it raises ("none": it returns).
InvokeCallbackRaised(http) == InvokerInvoke(http).raised

\* InvokeCallback.__call__: RecognitionStepFunctionResult(blob_id, labels)
InvokeCallbackReturn(blob_id, labels) == [blob_id |-> blob_id, labels |-> labels]

\* InvokeCallback.__call__: what is sent, BlobRecognitionResult(...).as_dict(),
\* and where.
InvokeCallbackRequest(st, blob_id, labels) ==
    [url |-> st[blob_id].callback_url,
     json |-> [blob_id |-> blob_id, labels |-> labels]]

\* A handler that leaves a terminal status alone (a variant of
\* HandleUnexpectedErrorStore, used to test C17).
HandleUnexpectedErrorStoreGuarded(st, blob_id) ==
    IF HasBlob(st, blob_id) /\ st[blob_id].status \in {WAITING_FOR_UPLOAD, IN_PROGRESS}
    THEN UpdateStatus(st, blob_id, UNEXPECTED_ERROR)
    ELSE st

\* A handler that returns without writing (a variant of
\* HandleUnexpectedErrorStore, used to test C20).
HandleUnexpectedErrorStoreNothing(st, blob_id) == st

\* HandleUnexpectedError.__call__
HandleUnexpectedErrorStore(st, blob_id) == UpdateStatus(st, blob_id, UNEXPECTED_ERROR)

\* The chain without its UNEXPECTED_ERROR branch (a variant of
\* StatusException, used to test C9).
StatusExceptionNoUnexpected(status) ==
    IF status = WAITING_FOR_UPLOAD THEN "BlobIsNotUploadedYet"
    ELSE IF status = UPLOAD_TIMED_OUT THEN "BlobUploadTimedOut"
    ELSE IF status = IN_PROGRESS THEN "BlobRecognitionIsInProgress"
    ELSE IF status = INVALID_BLOB_HAS_BEEN_UPLOADED THEN "InvalidBlobHasBeenUploaded"
    ELSE IF status = TOO_LARGE_BLOB_HAS_BEEN_UPLOADED THEN "TooLargeBlobHasBeenUploaded"
    ELSE "none"

\* The chain with the exceptions of its first two branches exchanged (a
\* variant of StatusException, used to test C10).
StatusExceptionSwapped(status) ==
    IF status = WAITING_FOR_UPLOAD THEN "BlobUploadTimedOut"
    ELSE IF status = UPLOAD_TIMED_OUT THEN "BlobIsNotUploadedYet"
    ELSE IF status = IN_PROGRESS THEN "BlobRecognitionIsInProgress"
    ELSE IF status = INVALID_BLOB_HAS_BEEN_UPLOADED THEN "InvalidBlobHasBeenUploaded"
    ELSE IF status = TOO_LARGE_BLOB_HAS_BEEN_UPLOADED THEN "TooLargeBlobHasBeenUploaded"
    ELSE IF status = UNEXPECTED_ERROR THEN "UnexpectedErrorOccurred"
    ELSE "none"

\* GetRecognitionResult.__call__: the exception raised for a status, by the
\* if/elif chain ("none": no branch matches and the result is returned).
StatusException(status) ==
    IF status = WAITING_FOR_UPLOAD THEN "BlobIsNotUploadedYet"
    ELSE IF status = UPLOAD_TIMED_OUT THEN "BlobUploadTimedOut"
    ELSE IF status = IN_PROGRESS THEN "BlobRecognitionIsInProgress"
    ELSE IF status = INVALID_BLOB_HAS_BEEN_UPLOADED THEN "InvalidBlobHasBeenUploaded"
    ELSE IF status = TOO_LARGE_BLOB_HAS_BEEN_UPLOADED THEN "TooLargeBlobHasBeenUploaded"
    ELSE IF status = UNEXPECTED_ERROR THEN "UnexpectedErrorOccurred"
    ELSE "none"

\* GetRecognitionResult.__call__: what it raises, with which payload, or returns.
GetRecognitionResult(st, blob_id) ==
    IF ~HasBlob(st, blob_id)
    THEN [raised |-> "BlobWasNotFound",
          payload |-> [blob_id |-> blob_id, status |-> NOT_FOUND],
          ret |-> NoReturn]
    ELSE LET blob == st[blob_id]
             status == blob.status
         IN  IF StatusException(status) /= "none"
             THEN [raised |-> StatusException(status),
                   payload |-> [blob_id |-> blob_id, status |-> status],
                   ret |-> NoReturn]
             ELSE [raised |-> "none",
                   payload |-> NoPayload,
                   ret |-> [blob_id |-> blob_id, labels |-> blob.labels]]

----------------------------------------------------------------------------
(* State. *)

BAD_REQUEST == 400
CREATED == 201

\* uuid4(): an id no record has.
NewBlobId(st) ==
    IF BlobIds \subseteq DOMAIN st THEN SpareId
    ELSE CHOOSE b \in BlobIds : b \notin DOMAIN st

IdleReg == [pc |-> "idle", blob |-> "", url |-> EmptyUrl]

\* What a caller of the http api gets: from which call, for which blob id,
\* the exception raised ("none": nothing) with its payload, and the result.
Response(op, blob_id, raised, payload, ret) ==
    [op |-> op, blob |-> blob_id, raised |-> raised, payload |-> payload, ret |-> ret]

\* An execution of the recognition step function: the step it is at, the
\* event passed to that step (raw labels, then labels), and the error that
\* ended a step.
Exec(blob_id, pc, raw, labels, error) ==
    [blob |-> blob_id, pc |-> pc, raw |-> raw, labels |-> labels, error |-> error]

Init ==
    /\ store = [b \in {} |-> 0]
    /\ s3 = {}
    /\ presigned = {}
    /\ reg = IdleReg
    /\ watch = [b \in BlobIds |-> "none"]
    /\ notif = [b \in BlobIds |-> 0]
    /\ trig = [b \in BlobIds |-> "idle"]
    /\ execs = <<>>
    /\ budget = 0
    /\ response = Response("none", "", "none", NoPayload, NoReturn)

\* An event that is irregular when (irregular) takes one of the budget.
Spend(irregular) ==
    IF irregular
    THEN budget < MaxIrregular /\ budget' = budget + 1
    ELSE budget' = budget

\* The orchestrator may invoke a step once more (at-least-once invocation).
Again(again) == Spend(again)

----------------------------------------------------------------------------
(* Registration: initialize_upload_listening_handler and                   *)
(* InitializeUploadListening.__call__.                                     *)

\* The handler's answer to CallbackUrlIsNotValid.
BadRequest(callback_url) ==
    [status_code |-> BAD_REQUEST,
     body |-> [description |-> "Invalid callback url supplied.",
               payload |-> [callback_url |-> callback_url]]]

\* The handler's answer to a registration; it puts what the use-case returned
\* under upload_url.
Created(blob_id, callback_url, result) ==
    [status_code |-> CREATED,
     body |-> [blob_id |-> blob_id, callback_url |-> callback_url, upload_url |-> result]]

\* InitializeUploadListening.__call__: UploadInitializingResult(...)
InitializeUploadListeningReturn(blob_id, callback_url) ==
    [blob_id |-> blob_id, upload_url |-> PresignedUrl(blob_id), callback_url |-> callback_url]

\* A use-case that creates the record before it validates the url (a variant
\* of InitializeValidateAndCreate, used to test C4).
InitializeCreateThenValidate(body_url) ==
    LET blob_id == NewBlobId(store)
        callback_url == Strip(body_url)
    IN  /\ reg.pc = "idle"
        /\ is_valid_url(callback_url) => blob_id \in BlobIds
        /\ store' = Create(store, blob_id, callback_url, WAITING_FOR_UPLOAD)
        /\ IF ~is_valid_url(callback_url)
           THEN /\ response' = Response("initialize_upload_listening", blob_id,
                                        "CallbackUrlIsNotValid",
                                        [callback_url |-> callback_url],
                                        BadRequest(callback_url))
                /\ UNCHANGED reg
           ELSE /\ reg' = [pc |-> "launch", blob |-> blob_id, url |-> callback_url]
                /\ UNCHANGED response
        /\ UNCHANGED <<s3, presigned, watch, notif, trig, execs, budget>>

\* A use-case that launches the uploading step function first and leaves the
\* creation of the record for later (a variant of InitializeValidateAndCreate,
\* used to test C19).
InitializeLaunchBeforeCreate(body_url) ==
    LET blob_id == NewBlobId(store)
        callback_url == Strip(body_url)
    IN  /\ reg.pc = "idle"
        /\ blob_id \in BlobIds
        /\ is_valid_url(callback_url)
        /\ watch' = [watch EXCEPT ![blob_id] = "waiting"]
        /\ reg' = [pc |-> "presign", blob |-> blob_id, url |-> callback_url]
        /\ UNCHANGED <<store, s3, presigned, notif, trig, execs, budget, response>>

\* The handler draws a new blob id, reads and strips the callback url, and
\* the use-case validates it: an invalid url is answered 400 and nothing
\* else is done; a valid one has its record created.
InitializeValidateAndCreate(body_url) ==
    LET blob_id == NewBlobId(store)
        callback_url == Strip(body_url)
    IN  /\ reg.pc = "idle"
        /\ is_valid_url(callback_url) => blob_id \in BlobIds
        /\ IF ~is_valid_url(callback_url)
           THEN /\ response' = Response("initialize_upload_listening", blob_id,
                                        "CallbackUrlIsNotValid",
                                        [callback_url |-> callback_url],
                                        BadRequest(callback_url))
                /\ UNCHANGED <<store, reg>>
           ELSE /\ store' = Create(store, blob_id, callback_url, WAITING_FOR_UPLOAD)
                /\ reg' = [pc |-> "launch", blob |-> blob_id, url |-> callback_url]
                /\ UNCHANGED response
        /\ UNCHANGED <<s3, presigned, watch, notif, trig, execs, budget>>

\* A registration that goes on to the upload target without launching the
\* uploading step function (a variant of InitializeLaunch, used to test C13).
InitializeSkipLaunch ==
    /\ reg.pc = "launch"
    /\ reg' = [reg EXCEPT !.pc = "presign"]
    /\ UNCHANGED <<store, s3, presigned, watch, notif, trig, execs, budget, response>>

\* uploading_step_function_client.launch(blob_id)
InitializeLaunch ==
    /\ reg.pc = "launch"
    /\ watch' = [watch EXCEPT ![reg.blob] = "waiting"]
    /\ reg' = [reg EXCEPT !.pc = "presign"]
    /\ UNCHANGED <<store, s3, presigned, notif, trig, execs, budget, response>>

\* generate_presigned_url(blob_id), the result, and the handler's 201.
InitializePresign ==
    /\ reg.pc = "presign"
    /\ presigned' = presigned \cup {reg.blob}
    /\ reg' = IdleReg
    /\ response' = Response("initialize_upload_listening", reg.blob, "none", NoPayload,
                            Created(reg.blob, reg.url,
                                    InitializeUploadListeningReturn(reg.blob, reg.url)))
    /\ UNCHANGED <<store, s3, watch, notif, trig, execs, budget>>

\* launch or generate_presigned_url raises: the exception leaves the use-case
\* and the handler, and what was done stays done.
InitializeCollaboratorFails ==
    /\ reg.pc \in {"launch", "presign"}
    /\ Spend(TRUE)
    /\ reg' = IdleReg
    /\ response' = Response("initialize_upload_listening", reg.blob, "Exception",
                            NoPayload, NoReturn)
    /\ UNCHANGED <<store, s3, presigned, watch, notif, trig, execs>>

----------------------------------------------------------------------------
(* The client uploads through the pre-signed url; the bucket notifies. *)

Upload(blob_id) ==
    /\ blob_id \in presigned
    /\ Spend(blob_id \in s3)
    /\ s3' = s3 \cup {blob_id}
    /\ notif' = [notif EXCEPT ![blob_id] = @ + 1]
    /\ UNCHANGED <<store, presigned, reg, watch, trig, execs, response>>

----------------------------------------------------------------------------
(* Upload watchdog: check_uploading_handler and CheckUploading.__call__. *)

\* is_uploaded(blob_id); when it answers true the call returns.
CheckUploadingRead(blob_id) ==
    /\ watch[blob_id] = "waiting"
    /\ IF blob_id \in s3
       THEN /\ watch' = [watch EXCEPT ![blob_id] = "done"]
            /\ store' = CheckUploadingStore(store, blob_id, TRUE)
       ELSE /\ watch' = [watch EXCEPT ![blob_id] = "absent"]
            /\ UNCHANGED store
    /\ UNCHANGED <<s3, presigned, reg, notif, trig, execs, budget, response>>

\* update_status(blob_id, UPLOAD_TIMED_OUT), after is_uploaded answered false.
CheckUploadingWrite(blob_id, again) ==
    /\ watch[blob_id] = "absent"
    /\ Again(again)
    /\ store' = CheckUploadingStore(store, blob_id, FALSE)
    /\ watch' = [watch EXCEPT ![blob_id] = IF again THEN "waiting" ELSE "done"]
    /\ UNCHANGED <<s3, presigned, reg, notif, trig, execs, response>>

----------------------------------------------------------------------------
(* Recognition trigger: image_has_been_uploaded_handler and                *)
(* StartRecognition.__call__.                                              *)

\* update_status(blob_id, IN_PROGRESS); on (again) the notification is
\* delivered once more.
StartRecognitionWrite(blob_id, again) ==
    /\ notif[blob_id] > 0
    /\ trig[blob_id] = "idle"
    /\ Again(again)
    /\ store' = StartRecognitionStore(store, blob_id)
    /\ notif' = [notif EXCEPT ![blob_id] = IF again THEN @ ELSE @ - 1]
    /\ trig' = [trig EXCEPT ![blob_id] = "written"]
    /\ UNCHANGED <<s3, presigned, reg, watch, execs, response>>

\* A trigger that launches the step function without having written the
\* status (a variant of StartRecognitionLaunch, used to test C18).
StartRecognitionLaunchUnwritten(blob_id) ==
    /\ notif[blob_id] > 0 \/ trig[blob_id] = "written"
    /\ execs' = Append(execs, Exec(blob_id, "get_labels", NoRaw, NoLabels, "none"))
    /\ trig' = [trig EXCEPT ![blob_id] = "idle"]
    /\ UNCHANGED <<store, s3, presigned, reg, watch, notif, budget, response>>

\* recognition_step_function_client.launch(blob_id)
StartRecognitionLaunch(blob_id) ==
    /\ trig[blob_id] = "written"
    /\ execs' = Append(execs, Exec(blob_id, "get_labels", NoRaw, NoLabels, "none"))
    /\ trig' = [trig EXCEPT ![blob_id] = "idle"]
    /\ UNCHANGED <<store, s3, presigned, reg, watch, notif, budget, response>>

\* update_status or launch raises: the exception leaves the use-case and the
\* handler, what was written stays written, and the notification of the
\* failed invocation is delivered again.
StartRecognitionCollaboratorFails(blob_id) ==
    /\ Spend(TRUE)
    /\ \/ /\ trig[blob_id] = "idle"
          /\ notif[blob_id] > 0
          /\ UNCHANGED <<trig, notif>>
       \/ /\ trig[blob_id] = "written"
          /\ trig' = [trig EXCEPT ![blob_id] = "idle"]
          /\ notif' = [notif EXCEPT ![blob_id] = @ + 1]
    /\ UNCHANGED <<store, s3, presigned, reg, watch, execs, response>>

----------------------------------------------------------------------------
(* The recognition step function: get_labels, transform_labels,            *)
(* save_labels, invoke_callback, and the fallback on an unclassified        *)
(* error. Each step's output is the next step's event.                      *)

Execs == 1..Len(execs)

\* Where an execution goes after a step: on (again) the step is invoked once
\* more with the same event.
Move(i, again, next) ==
    /\ Again(again)
    /\ execs' = [execs EXCEPT ![i] = IF again THEN @ ELSE next]

\* get_labels_handler, GetLabels.__call__: RecognitionStepHasBeenFailed ends
\* the execution.
GetLabelsStep(i, ans, again) ==
    LET blob_id == execs[i].blob
        result == GetLabelsReturn(blob_id, ans)
    IN  /\ execs[i].pc = "get_labels"
        /\ store' = GetLabelsStore(store, blob_id, ans)
        /\ IF GetLabelsRaised(ans) /= "none"
           THEN Move(i, again, Exec(blob_id, "failed", NoRaw, NoLabels, GetLabelsRaised(ans)))
           ELSE Move(i, again, Exec(result.blob_id, "transform_labels", result.labels,
                                    NoLabels, "none"))
        /\ UNCHANGED <<s3, presigned, reg, watch, notif, trig, response>>

\* transform_labels_handler, TransformLabels.__call__
TransformLabelsStep(i, again) ==
    LET result == TransformLabelsReturn(execs[i].blob, execs[i].raw)
    IN  /\ execs[i].pc = "transform_labels"
        /\ Move(i, again, Exec(result.blob_id, "save_labels", NoRaw, result.labels, "none"))
        /\ UNCHANGED <<store, s3, presigned, reg, watch, notif, trig, response>>

\* save_labels_handler, SaveLabels.__call__
SaveLabelsStep(i, again) ==
    LET result == SaveLabelsReturn(execs[i].blob, execs[i].labels)
    IN  /\ execs[i].pc = "save_labels"
        /\ store' = SaveLabelsStore(store, execs[i].blob, execs[i].labels)
        /\ Move(i, again, Exec(result.blob_id, "invoke_callback", NoRaw, result.labels, "none"))
        /\ UNCHANGED <<s3, presigned, reg, watch, notif, trig, response>>

\* invoke_callback_handler, InvokeCallback.__call__: an exception that
\* Invoker.invoke lets through leaves the step, and the step function falls
\* back to the unexpected-error handler.
InvokeCallbackStep(i, http, again) ==
    LET blob_id == execs[i].blob
        result == InvokeCallbackReturn(blob_id, execs[i].labels)
    IN  /\ execs[i].pc = "invoke_callback"
        /\ HasBlob(store, blob_id)
        /\ store' = InvokeCallbackStore(store, blob_id, http)
        /\ IF InvokeCallbackRaised(http) /= "none"
           THEN Move(i, again, Exec(blob_id, "fallback", NoRaw, NoLabels,
                                    InvokeCallbackRaised(http)))
           ELSE Move(i, again, Exec(result.blob_id, "succeeded", NoRaw, result.labels, "none"))
        /\ UNCHANGED <<s3, presigned, reg, watch, notif, trig, response>>

\* A step fails with an error it does not classify (an outage of the table,
\* of Rekognition, ...) before it has written: the step function falls back.
StepFailsUnexpectedly(i) ==
    /\ execs[i].pc \in {"get_labels", "transform_labels", "save_labels", "invoke_callback"}
    /\ Spend(TRUE)
    /\ execs' = [execs EXCEPT ![i] = Exec(@.blob, "fallback", NoRaw, NoLabels, "Exception")]
    /\ UNCHANGED <<store, s3, presigned, reg, watch, notif, trig, response>>

\* unexpected_error_fallback_handler, HandleUnexpectedError.__call__
HandleUnexpectedErrorStep(i, again) ==
    LET blob_id == execs[i].blob
    IN  /\ execs[i].pc = "fallback"
        /\ store' = HandleUnexpectedErrorStore(store, blob_id)
        /\ Move(i, again, Exec(blob_id, "failed", NoRaw, NoLabels, execs[i].error))
        /\ UNCHANGED <<s3, presigned, reg, watch, notif, trig, response>>

----------------------------------------------------------------------------
(* Result reader: get_recognition_result_handler and                       *)
(* GetRecognitionResult.__call__, for any id a caller may send.            *)

\* A reader that hands the labels out once, removing them from the record
\* it returns them from (a variant of GetRecognitionResultCall, used to test
\* C16).
GetRecognitionResultCallOnce(blob_id) ==
    LET r == GetRecognitionResult(store, blob_id)
    IN  /\ response' = Response("get_recognition_result", blob_id,
                                r.raised, r.payload, r.ret)
        /\ store' = IF r.raised = "none"
                    THEN [store EXCEPT ![blob_id].labels = None]
                    ELSE store
        /\ UNCHANGED <<s3, presigned, reg, watch, notif, trig, execs, budget>>

GetRecognitionResultCall(blob_id) ==
    LET r == GetRecognitionResult(store, blob_id)
    IN  /\ response' = Response("get_recognition_result", blob_id,
                                r.raised, r.payload, r.ret)
        /\ UNCHANGED <<store, s3, presigned, reg, watch, notif, trig, execs, budget>>

----------------------------------------------------------------------------

Next ==
    \/ \E u \in CallbackUrls : InitializeValidateAndCreate(u)
    \/ InitializeLaunch
    \/ InitializePresign
    \/ InitializeCollaboratorFails
    \/ \E b \in BlobIds : Upload(b)
    \/ \E b \in BlobIds : CheckUploadingRead(b)
    \/ \E b \in BlobIds, again \in BOOLEAN : CheckUploadingWrite(b, again)
    \/ \E b \in BlobIds, again \in BOOLEAN : StartRecognitionWrite(b, again)
    \/ \E b \in BlobIds : StartRecognitionLaunch(b)
    \/ \E b \in BlobIds : StartRecognitionCollaboratorFails(b)
    \/ \E i \in Execs, ans \in DetectAnswers, again \in BOOLEAN : GetLabelsStep(i, ans, again)
    \/ \E i \in Execs, again \in BOOLEAN : TransformLabelsStep(i, again)
    \/ \E i \in Execs, again \in BOOLEAN : SaveLabelsStep(i, again)
    \/ \E i \in Execs, http \in HttpOutcomes, again \in BOOLEAN : InvokeCallbackStep(i, http, again)
    \/ \E i \in Execs : StepFailsUnexpectedly(i)
    \/ \E i \in Execs, again \in BOOLEAN : HandleUnexpectedErrorStep(i, again)
    \/ \E b \in BlobIds \cup {SpareId} : GetRecognitionResultCall(b)

Spec == Init /\ [][Next]_vars

\* The external triggers are scheduled fairly: a launched watch runs its
\* check and, after "absent", its write; a pending notification invokes the
\* trigger, which goes on to its launch; a launched execution runs its
\* steps, and the fallback when a step has failed unexpectedly. Clients
\* (registration, upload, reading the result) and faults are under no
\* obligation to happen.
Fairness ==
    /\ \A b \in BlobIds :
           /\ WF_vars(CheckUploadingRead(b))
           /\ WF_vars(\E again \in BOOLEAN : CheckUploadingWrite(b, again))
           /\ WF_vars(\E again \in BOOLEAN : StartRecognitionWrite(b, again))
           /\ WF_vars(StartRecognitionLaunch(b))
    /\ WF_vars(\E i \in Execs, ans \in DetectAnswers, again \in BOOLEAN :
                   GetLabelsStep(i, ans, again))
    /\ WF_vars(\E i \in Execs, again \in BOOLEAN : TransformLabelsStep(i, again))
    /\ WF_vars(\E i \in Execs, again \in BOOLEAN : SaveLabelsStep(i, again))
    /\ WF_vars(\E i \in Execs, http \in HttpOutcomes, again \in BOOLEAN :
                   InvokeCallbackStep(i, http, again))
    /\ WF_vars(\E i \in Execs, again \in BOOLEAN : HandleUnexpectedErrorStep(i, again))

FairSpec == Spec /\ Fairness

----------------------------------------------------------------------------
(* Claims about the status of a record.                                    *)

Terminal ==
    { UPLOAD_TIMED_OUT, INVALID_BLOB_HAS_BEEN_UPLOADED, TOO_LARGE_BLOB_HAS_BEEN_UPLOADED,
      UNEXPECTED_ERROR, SUCCESS, FAILED_DUE_TO_CALLBACK_FAILURE,
      FAILED_DUE_TO_CALLBACK_TIME_OUT, FAILED_DUE_TO_CALLBACK_CONNECTION }

PipelineOutcomes == Terminal \ {UPLOAD_TIMED_OUT}

\* The edges of the status state machine.
Edge(from, to) ==
    \/ from = WAITING_FOR_UPLOAD /\ to \in {IN_PROGRESS, UPLOAD_TIMED_OUT, UNEXPECTED_ERROR}
    \/ from = IN_PROGRESS /\ to \in PipelineOutcomes

\* C1: every change of a record's status follows an edge of the state
\* machine: from WAITING_FOR_UPLOAD to IN_PROGRESS, UPLOAD_TIMED_OUT or
\* UNEXPECTED_ERROR, or from IN_PROGRESS to one of the seven pipeline
\* outcomes; so no step changes a terminal status.
C1_StatusChangesFollowEdges ==
    [][\A b \in DOMAIN store :
          store'[b].status /= store[b].status
              => Edge(store[b].status, store'[b].status)]_vars

\* C2: a Recognition Trigger call for a blob whose status is UPLOAD_TIMED_OUT
\* leaves the status UPLOAD_TIMED_OUT.
C2_TimedOutStaysTimedOut ==
    [][\A b \in BlobIds, again \in BOOLEAN :
          (StartRecognitionWrite(b, again) /\ store[b].status = UPLOAD_TIMED_OUT)
              => store'[b].status = UPLOAD_TIMED_OUT]_vars

\* C3: the watchdog never writes UPLOAD_TIMED_OUT over IN_PROGRESS: no step
\* takes a status from IN_PROGRESS to UPLOAD_TIMED_OUT.
C3_NoTimeOutAfterInProgress ==
    [][\A b \in DOMAIN store :
          ~(store[b].status = IN_PROGRESS /\ store'[b].status = UPLOAD_TIMED_OUT)]_vars

----------------------------------------------------------------------------
(* Claims about registration.                                              *)

\* C4: a registration whose callback url the validator rejects is answered
\* with CallbackUrlIsNotValid carrying that url (a 400 with the url as
\* payload) and changes nothing: no record, no upload-watch workflow, no
\* upload target, no call left in flight.
C4_InvalidUrlHasNoSideEffects ==
    [][\A u \in CallbackUrls :
          (InitializeValidateAndCreate(u) /\ ~is_valid_url(Strip(u)))
              => /\ UNCHANGED <<store, s3, presigned, reg, watch, notif, trig, execs>>
                 /\ response'.op = "initialize_upload_listening"
                 /\ response'.raised = "CallbackUrlIsNotValid"
                 /\ response'.payload = [callback_url |-> Strip(u)]
                 /\ response'.ret.status_code = BAD_REQUEST
                 /\ response'.ret.body.payload = [callback_url |-> Strip(u)]]_vars

\* A rejected registration was answered while a record exists and its upload
\* target has been issued.
C4_Witness ==
    /\ response.op = "initialize_upload_listening"
    /\ response.raised = "CallbackUrlIsNotValid"
    /\ response.payload.callback_url.scheme = "ftp"
    /\ DOMAIN store = BlobIds
    /\ presigned = BlobIds

----------------------------------------------------------------------------
(* Claims about repeated steps.                                            *)

RecognitionErrors ==
    { a \in DetectAnswers : a.kind /= "ok" }

\* C5: each status-writing use-case, applied a second time to the table the
\* first application left, with the same collaborator answer, leaves the
\* table as the first application left it and raises what the first raised;
\* the Recognition Trigger applied twice leaves the status IN_PROGRESS.
C5_StatusStepsAreIdempotent ==
    \A b \in DOMAIN store :
        /\ LET once == StartRecognitionStore(store, b)
           IN  /\ StartRecognitionStore(once, b) = once
               /\ once[b].status = IN_PROGRESS
        /\ LET once == CheckUploadingStore(store, b, FALSE)
           IN  CheckUploadingStore(once, b, FALSE) = once
        /\ \A ans \in RecognitionErrors :
               LET once == GetLabelsStore(store, b, ans)
               IN  GetLabelsStore(once, b, ans) = once
        /\ \A http \in HttpOutcomes :
               LET once == InvokeCallbackStore(store, b, http)
               IN  /\ InvokeCallbackStore(once, b, http) = once
                   /\ HasBlob(once, b)
        /\ LET once == HandleUnexpectedErrorStore(store, b)
           IN  HandleUnexpectedErrorStore(once, b) = once

\* The Recognition Trigger has run twice for one blob (one notification
\* delivered twice, or two uploads): two executions were launched, nothing
\* has run since, and the status is IN_PROGRESS.
C5_Witness ==
    /\ Len(execs) = 2
    /\ execs[1].blob = execs[2].blob
    /\ execs[1].pc = "get_labels"
    /\ execs[2].pc = "get_labels"
    /\ store[execs[1].blob].status = IN_PROGRESS

----------------------------------------------------------------------------
(* Claims about the callback dispatcher.                                   *)

CallbackStatuses ==
    { SUCCESS, FAILED_DUE_TO_CALLBACK_FAILURE, FAILED_DUE_TO_CALLBACK_TIME_OUT,
      FAILED_DUE_TO_CALLBACK_CONNECTION }

\* C6: every call of the Callback Dispatcher on an existing record writes
\* exactly one of the four callback statuses, fixed by the delivery outcome:
\* a 204 response gives SUCCESS, any other response
\* FAILED_DUE_TO_CALLBACK_FAILURE, a connection timeout
\* FAILED_DUE_TO_CALLBACK_TIME_OUT, a connection that cannot be established
\* FAILED_DUE_TO_CALLBACK_CONNECTION; no delivery attempt ends otherwise.
C6_CallbackStatusIsOneOfFour ==
    [][\A i \in Execs, http \in HttpOutcomes, again \in BOOLEAN :
          InvokeCallbackStep(i, http, again)
              => LET written == store'[execs[i].blob].status
                 IN  /\ written \in CallbackStatuses
                     /\ (http.kind = "response" /\ http.status_code = 204)
                            => written = SUCCESS
                     /\ (http.kind = "response" /\ http.status_code /= 204)
                            => written = FAILED_DUE_TO_CALLBACK_FAILURE
                     /\ http.kind = "ConnectTimeout"
                            => written = FAILED_DUE_TO_CALLBACK_TIME_OUT
                     /\ http.kind = "ConnectionError"
                            => written = FAILED_DUE_TO_CALLBACK_CONNECTION]_vars

\* C7: whatever the delivery attempt does, the Callback Dispatcher raises
\* nothing and returns {blob_id, labels} equal to its input: the execution
\* goes on to its end with the labels it had.
C7_CallbackNeverRaises ==
    [][\A i \in Execs, http \in HttpOutcomes :
          InvokeCallbackStep(i, http, FALSE)
              => /\ execs'[i].pc = "succeeded"
                 /\ execs'[i].error = "none"
                 /\ execs'[i].blob = execs[i].blob
                 /\ execs'[i].labels = execs[i].labels]_vars

----------------------------------------------------------------------------
(* Claims about the label extractor.                                       *)

\* C8: the Label Extractor, when recognition reports an unsupported format,
\* sets INVALID_BLOB_HAS_BEEN_UPLOADED and raises
\* RecognitionStepHasBeenFailed; when recognition reports the size limit
\* exceeded, sets TOO_LARGE_BLOB_HAS_BEEN_UPLOADED and raises
\* RecognitionStepHasBeenFailed; when recognition succeeds, returns the raw
\* payload unchanged with the blob id and writes nothing to the table.
C8_LabelExtractorOutcomes ==
    [][\A i \in Execs, ans \in DetectAnswers :
          GetLabelsStep(i, ans, FALSE)
              => LET b == execs[i].blob
                 IN  /\ ans.kind = "InvalidBlobHasBeenUploaded"
                            => /\ store' = [store EXCEPT
                                              ![b].status = INVALID_BLOB_HAS_BEEN_UPLOADED]
                               /\ execs'[i].pc = "failed"
                               /\ execs'[i].error = "RecognitionStepHasBeenFailed"
                     /\ ans.kind = "TooLargeBlobHasBeenUploaded"
                            => /\ store' = [store EXCEPT
                                              ![b].status = TOO_LARGE_BLOB_HAS_BEEN_UPLOADED]
                               /\ execs'[i].pc = "failed"
                               /\ execs'[i].error = "RecognitionStepHasBeenFailed"
                     /\ ans.kind = "ok"
                            => /\ store' = store
                               /\ execs'[i].pc = "transform_labels"
                               /\ execs'[i].error = "none"
                               /\ execs'[i].blob = b
                               /\ execs'[i].raw = ans.raw]_vars

\* An execution was ended by the Label Extractor on an oversized blob, and
\* another went on with the raw payload of two labels.
C8_Witness ==
    /\ \E i \in Execs :
           /\ execs[i].pc = "failed"
           /\ execs[i].error = "RecognitionStepHasBeenFailed"
           /\ store[execs[i].blob].status = TOO_LARGE_BLOB_HAS_BEEN_UPLOADED
    /\ \E i \in Execs :
           /\ execs[i].pc = "transform_labels"
           /\ Len(execs[i].raw.Labels) = 2

----------------------------------------------------------------------------
(* Claims about the result reader.                                         *)

\* C9, as claimed: the Result Reader returns the success payload only for a
\* record whose status is SUCCESS.
C9_SuccessPayloadOnlyForSuccess ==
    [][\A b \in DOMAIN store :
          (GetRecognitionResultCall(b) /\ response'.raised = "none")
              => store[b].status = SUCCESS]_vars

\* C9, amended: the Result Reader returns the success payload exactly for a
\* record whose status is SUCCESS or one of the three FAILED_DUE_TO_CALLBACK_*
\* statuses, and the payload is {blob_id, labels} with the labels stored in
\* the record; for every other record it raises and returns nothing.
C9_SuccessPayloadForCallbackStatuses ==
    [][\A b \in DOMAIN store :
          GetRecognitionResultCall(b)
              => IF store[b].status \in CallbackStatuses
                 THEN /\ response'.raised = "none"
                      /\ response'.ret = [blob_id |-> b, labels |-> store[b].labels]
                 ELSE /\ response'.raised /= "none"
                      /\ response'.ret = NoReturn]_vars

\* The reader returned the stored labels of a record whose callback timed out.
C9_Witness ==
    /\ response.op = "get_recognition_result"
    /\ response.raised = "none"
    /\ HasBlob(store, response.blob)
    /\ store[response.blob].status = FAILED_DUE_TO_CALLBACK_TIME_OUT
    /\ response.ret.labels = store[response.blob].labels
    /\ response.ret.labels /= None

\* The exception the reader is to raise for each status that has one.
ReaderFailures ==
    { <<WAITING_FOR_UPLOAD, "BlobIsNotUploadedYet">>,
      <<UPLOAD_TIMED_OUT, "BlobUploadTimedOut">>,
      <<IN_PROGRESS, "BlobRecognitionIsInProgress">>,
      <<INVALID_BLOB_HAS_BEEN_UPLOADED, "InvalidBlobHasBeenUploaded">>,
      <<TOO_LARGE_BLOB_HAS_BEEN_UPLOADED, "TooLargeBlobHasBeenUploaded">>,
      <<UNEXPECTED_ERROR, "UnexpectedErrorOccurred">> }

\* C10: the Result Reader's outcome is a function of the record: no record
\* gives BlobWasNotFound; each of the six statuses of ReaderFailures gives
\* its exception, carrying {blob_id, status}; every status gives exactly one
\* outcome, an exception or a result.
C10_ReaderOutcomeIsTotal ==
    [][\A b \in BlobIds \cup {SpareId} :
          GetRecognitionResultCall(b)
              => /\ response'.op = "get_recognition_result"
                 /\ response'.blob = b
                 /\ (response'.raised = "none") /= (response'.ret = NoReturn)
                 /\ (response'.raised = "none") = (response'.payload = NoPayload)
                 /\ ~HasBlob(store, b)
                        => /\ response'.raised = "BlobWasNotFound"
                           /\ response'.payload.blob_id = b
                 /\ \A f \in ReaderFailures :
                        (HasBlob(store, b) /\ store[b].status = f[1])
                            => /\ response'.raised = f[2]
                               /\ response'.payload = [blob_id |-> b, status |-> f[1]]]_vars

\* The reader has raised BlobUploadTimedOut for a timed-out record.
C10_Witness ==
    /\ response.op = "get_recognition_result"
    /\ response.raised = "BlobUploadTimedOut"
    /\ response.payload.status = UPLOAD_TIMED_OUT
    /\ HasBlob(store, response.blob)
    /\ store[response.blob].status = UPLOAD_TIMED_OUT

----------------------------------------------------------------------------
(* Claims about the label persister.                                       *)

\* C11: the labels of a record are written at most once, only by the Label
\* Persister, and only while the status is IN_PROGRESS: every persister step,
\* a repeated one and one that runs after the status has left IN_PROGRESS
\* included, finds the status IN_PROGRESS and no labels stored, and no other
\* step changes the labels.
C11_LabelsWrittenOnceInProgress ==
    [][/\ \A i \in Execs, again \in BOOLEAN :
              SaveLabelsStep(i, again)
                  => /\ store[execs[i].blob].status = IN_PROGRESS
                     /\ store[execs[i].blob].labels = None
       /\ \A b \in DOMAIN store :
              store'[b].labels /= store[b].labels
                  => \E i \in Execs, again \in BOOLEAN : SaveLabelsStep(i, again)]_vars

----------------------------------------------------------------------------
(* Claims about the upload watchdog.                                       *)

\* C12: the Upload Watchdog changes the table only when is_uploaded answers
\* that the blob is absent: its check leaves the table as it is, and after
\* the answer "absent" it sets the status of the record to UPLOAD_TIMED_OUT
\* and changes nothing else in the table; no step other than the watchdog's
\* write makes a status UPLOAD_TIMED_OUT.
C12_WatchdogWritesOnlyWhenAbsent ==
    [][\A b \in BlobIds :
          /\ CheckUploadingRead(b) => store' = store
          /\ \A again \in BOOLEAN :
                 CheckUploadingWrite(b, again)
                     => /\ HasBlob(store, b)
                        /\ store' = [store EXCEPT ![b].status = UPLOAD_TIMED_OUT]
          /\ ( /\ HasBlob(store, b)
               /\ store[b].status /= UPLOAD_TIMED_OUT
               /\ store'[b].status = UPLOAD_TIMED_OUT )
                 => \E again \in BOOLEAN : CheckUploadingWrite(b, again)]_vars

\* The watchdog has run twice for a blob: it marked the time-out when the
\* blob was absent, and, invoked once more after the upload, left the record
\* as it was (the trigger has not run yet).
C12_Witness ==
    \E b \in BlobIds :
        /\ HasBlob(store, b)
        /\ store[b].status = UPLOAD_TIMED_OUT
        /\ store[b].labels = None
        /\ watch[b] = "done"
        /\ b \in s3
        /\ notif[b] = 1
        /\ budget = 1
        /\ execs = <<>>

----------------------------------------------------------------------------
(* Claims about a successful registration.                                 *)

\* C13: a registration with a valid callback url adds exactly one record,
\* under the new blob id, with status WAITING_FOR_UPLOAD and the supplied
\* callback url, and changes no other record; it launches the upload-watch
\* workflow for that id once (no watch existed for the id, and no other step
\* launches one); it returns {blob_id, callback_url, upload_url} with the
\* upload target issued for that id, the record and the watch being there;
\* and after creating the record registration does not write to the table.
C13_RegistrationCreatesLaunchesReturns ==
    [][/\ \A u \in CallbackUrls :
              (InitializeValidateAndCreate(u) /\ is_valid_url(Strip(u)))
                  => LET id == NewBlobId(store)
                     IN  /\ ~HasBlob(store, id)
                         /\ DOMAIN store' = DOMAIN store \cup {id}
                         /\ \A b \in DOMAIN store : store'[b] = store[b]
                         /\ store'[id].status = WAITING_FOR_UPLOAD
                         /\ store'[id].callback_url = Strip(u)
                         /\ store'[id].labels = None
                         /\ reg'.blob = id
                         /\ reg'.url = Strip(u)
       /\ InitializeLaunch
              => /\ HasBlob(store, reg.blob)
                 /\ watch[reg.blob] = "none"
                 /\ watch' = [watch EXCEPT ![reg.blob] = "waiting"]
                 /\ store' = store
       /\ \A b \in BlobIds :
              (watch[b] = "none" /\ watch'[b] /= "none")
                  => (InitializeLaunch /\ reg.blob = b)
       /\ InitializePresign
              => /\ HasBlob(store, reg.blob)
                 /\ store[reg.blob].callback_url = reg.url
                 /\ store' = store
                 /\ watch[reg.blob] /= "none"
                 /\ presigned' = presigned \cup {reg.blob}
                 /\ response'.op = "initialize_upload_listening"
                 /\ response'.raised = "none"
                 /\ response'.ret.status_code = CREATED
                 /\ response'.ret.body.blob_id = reg.blob
                 /\ response'.ret.body.callback_url = reg.url
                 /\ response'.ret.body.upload_url =
                        [blob_id |-> reg.blob,
                         callback_url |-> reg.url,
                         upload_url |-> PresignedUrl(reg.blob)]]_vars

\* A registration has been answered 201: its record is in WAITING_FOR_UPLOAD
\* with the url sent, its watch is waiting and its upload target is issued.
C13_Witness ==
    /\ response.op = "initialize_upload_listening"
    /\ response.raised = "none"
    /\ response.ret.status_code = CREATED
    /\ reg = IdleReg
    /\ HasBlob(store, response.blob)
    /\ store[response.blob].status = WAITING_FOR_UPLOAD
    /\ store[response.blob].callback_url = Url("https", "example.com", FALSE)
    /\ response.ret.body.upload_url.upload_url = PresignedUrl(response.blob)
    /\ watch[response.blob] = "waiting"
    /\ response.blob \in presigned

----------------------------------------------------------------------------
(* Claims about the label normalizer.                                      *)

\* C14: the Label Normalizer returns, for a raw payload of N labels, N
\* entries in the same order, the k-th being {label, confidence, parents}
\* with the k-th raw label's Name, its Confidence, and the Names of its
\* Parents in order; a missing Name or Confidence (and a parent's missing
\* Name) becomes the empty string, a label without parents has an empty
\* parents sequence; the blob id is passed on and the table is not written.
C14_NormalizerPreservesStructure ==
    [][\A i \in Execs :
          TransformLabelsStep(i, FALSE)
              => LET raw == execs[i].raw.Labels
                     out == execs'[i].labels
                 IN  /\ store' = store
                     /\ execs'[i].blob = execs[i].blob
                     /\ execs'[i].pc = "save_labels"
                     /\ Len(out) = Len(raw)
                     /\ \A k \in 1..Len(raw) :
                            /\ DOMAIN out[k] = {"label", "confidence", "parents"}
                            /\ out[k].label =
                                   IF "Name" \in DOMAIN raw[k] THEN raw[k].Name ELSE ""
                            /\ out[k].confidence =
                                   IF "Confidence" \in DOMAIN raw[k]
                                   THEN raw[k].Confidence ELSE ""
                            /\ IF "Parents" \in DOMAIN raw[k]
                               THEN /\ Len(out[k].parents) = Len(raw[k].Parents)
                                    /\ \A j \in 1..Len(raw[k].Parents) :
                                           out[k].parents[j] =
                                               IF "Name" \in DOMAIN raw[k].Parents[j]
                                               THEN raw[k].Parents[j].Name ELSE ""
                               ELSE out[k].parents = <<>>]_vars

\* Two executions have had their labels normalized: one holds Cat with its
\* two parents followed by Sky with none, the other a label without a name
\* followed by one without a confidence.
C14_Witness ==
    /\ \E i \in Execs :
           /\ execs[i].pc = "save_labels"
           /\ Len(execs[i].labels) = 2
           /\ execs[i].labels[1] =
                  [label |-> "Cat", confidence |-> "98.1", parents |-> <<"Animal", "Pet">>]
           /\ execs[i].labels[2] =
                  [label |-> "Sky", confidence |-> "71.5", parents |-> <<>>]
    /\ \E i \in Execs :
           /\ execs[i].pc = "save_labels"
           /\ Len(execs[i].labels) = 2
           /\ execs[i].labels[1] =
                  [label |-> "", confidence |-> "12.0", parents |-> <<>>]
           /\ execs[i].labels[2] =
                  [label |-> "Dim", confidence |-> "", parents |-> <<"Light", "">>]

----------------------------------------------------------------------------
(* Claims about the nominal run.                                           *)

\* The run of a blob is nominal so far: registration has returned, nothing
\* irregular has happened (no second upload, no step or notification
\* delivered again, no collaborator fault) and the watchdog has not run.
Nominal(b) ==
    /\ budget = 0
    /\ reg = IdleReg
    /\ watch[b] = "waiting"
    /\ HasBlob(store, b)

Ok204 == [kind |-> "response", status_code |-> 204]

\* C15: in the nominal run of a registered blob the Recognition Trigger takes
\* the status from WAITING_FOR_UPLOAD to IN_PROGRESS; the Label Persister
\* stores the normalized labels and leaves the status IN_PROGRESS; the
\* Callback Dispatcher, answered 204, sends {blob_id, labels} with the stored
\* labels and takes the status from IN_PROGRESS to SUCCESS; and a Result
\* Reader call made afterwards returns {blob_id, labels} with those labels.
C15_NominalRunEndsInSuccess ==
    [][\A b \in BlobIds :
          Nominal(b)
              => /\ StartRecognitionWrite(b, FALSE)
                        => /\ store[b].status = WAITING_FOR_UPLOAD
                           /\ store'[b].status = IN_PROGRESS
                 /\ \A i \in Execs :
                        SaveLabelsStep(i, FALSE)
                            => /\ execs[i].blob = b
                               /\ execs[i].labels \in {Transform(r) : r \in RawPayloads}
                               /\ store[b].status = IN_PROGRESS
                               /\ store' = [store EXCEPT ![b].labels = Some(execs[i].labels)]
                 /\ \A i \in Execs :
                        InvokeCallbackStep(i, Ok204, FALSE)
                            => /\ store[b].status = IN_PROGRESS
                               /\ store[b].labels = Some(execs[i].labels)
                               /\ InvokeCallbackRequest(store, b, execs[i].labels) =
                                      [url |-> store[b].callback_url,
                                       json |-> [blob_id |-> b, labels |-> execs[i].labels]]
                               /\ store' = [store EXCEPT ![b].status = SUCCESS]
                               /\ GetRecognitionResult(store', b) =
                                      [raised |-> "none",
                                       payload |-> NoPayload,
                                       ret |-> [blob_id |-> b,
                                                labels |-> Some(execs[i].labels)]]
                 /\ ( /\ GetRecognitionResultCall(b)
                      /\ store[b].status = SUCCESS )
                        => /\ Len(execs) = 1
                           /\ execs[1].pc = "succeeded"
                           /\ execs[1].labels \in {Transform(r) : r \in RawPayloads}
                           /\ response'.raised = "none"
                           /\ response'.ret =
                                  [blob_id |-> b, labels |-> Some(execs[1].labels)]]_vars

\* The nominal run is over and SUCCESS is recorded: the reader has returned
\* the labels of Cat and Sky that the execution carried to its end.
C15_Witness ==
    /\ budget = 0
    /\ Len(execs) = 1
    /\ execs[1].pc = "succeeded"
    /\ watch[execs[1].blob] = "waiting"
    /\ store[execs[1].blob].status = SUCCESS
    /\ response.op = "get_recognition_result"
    /\ response.raised = "none"
    /\ response.ret = [blob_id |-> execs[1].blob, labels |-> Some(execs[1].labels)]
    /\ execs[1].labels = Transform([Labels |-> <<Cat, Sky>>])

----------------------------------------------------------------------------
(* Claims about what the result reader leaves alone.                       *)

\* C16: a Result Reader call, for an id with a record in any state or for an
\* id without a record, whether it returns a payload or raises, leaves the
\* table exactly as it was (and with it the bucket, the workflows and the
\* calls in flight).
C16_ReaderChangesNothing ==
    [][\A b \in BlobIds \cup {SpareId} :
          GetRecognitionResultCall(b)
              => /\ store' = store
                 /\ UNCHANGED <<s3, presigned, reg, watch, notif, trig, execs>>]_vars

\* The reader has raised BlobWasNotFound for an id without a record, after
\* having been able to return the labels of the record that exists.
C16_Witness ==
    /\ response.op = "get_recognition_result"
    /\ response.raised = "BlobWasNotFound"
    /\ ~HasBlob(store, response.blob)
    /\ \E b \in DOMAIN store :
           /\ store[b].status \in CallbackStatuses
           /\ store[b].labels /= None

----------------------------------------------------------------------------
(* Claims about the unexpected-error handler.                              *)

\* C17: the Unexpected-Error Handler sets the status to UNEXPECTED_ERROR
\* whatever the status was, leaves callback_url and labels (and every other
\* record) as they were, and raises nothing: the execution ends with the
\* error that brought it to the handler.
C17_HandlerSetsUnexpectedError ==
    [][/\ \A b \in DOMAIN store :
              HandleUnexpectedErrorStore(store, b) =
                  [store EXCEPT ![b].status = UNEXPECTED_ERROR]
       /\ \A i \in Execs, again \in BOOLEAN :
              HandleUnexpectedErrorStep(i, again)
                  => /\ HasBlob(store, execs[i].blob)
                     /\ store' = [store EXCEPT ![execs[i].blob].status = UNEXPECTED_ERROR]
                     /\ store'[execs[i].blob].callback_url = store[execs[i].blob].callback_url
                     /\ store'[execs[i].blob].labels = store[execs[i].blob].labels
                     /\ execs'[i].error = execs[i].error
                     /\ ~again => execs'[i].pc = "failed"]_vars

\* The handler has run for an execution whose callback raised ReadTimeout
\* after the watchdog had marked the record timed out: the status is
\* UNEXPECTED_ERROR and the labels saved before are still there.
C17_Witness ==
    \E i \in Execs :
        /\ execs[i].pc = "failed"
        /\ execs[i].error = "ReadTimeout"
        /\ watch[execs[i].blob] = "done"
        /\ store[execs[i].blob].status = UNEXPECTED_ERROR
        /\ store[execs[i].blob].labels /= None

----------------------------------------------------------------------------
(* Claims about the recognition trigger.                                   *)

\* C18: the Recognition Trigger writes IN_PROGRESS before it launches the
\* recognition workflow: every launch for a blob id is made by a trigger
\* invocation that has made its status write, that write set the status of
\* the record to IN_PROGRESS, nothing else starts an execution, and an
\* invocation whose status write fails launches nothing and writes nothing.
C18_InProgressBeforeLaunch ==
    [][/\ \A b \in BlobIds :
              /\ StartRecognitionLaunch(b)
                     => /\ trig[b] = "written"
                        /\ Len(execs') = Len(execs) + 1
                        /\ execs'[Len(execs')].blob = b
              /\ (trig[b] /= "written" /\ trig'[b] = "written")
                     => /\ \E again \in BOOLEAN : StartRecognitionWrite(b, again)
                        /\ store'[b].status = IN_PROGRESS
              /\ (StartRecognitionCollaboratorFails(b) /\ trig[b] = "idle")
                     => /\ execs' = execs
                        /\ store' = store
                        /\ trig'[b] = "idle"
       /\ Len(execs') /= Len(execs)
              => \E b \in BlobIds : StartRecognitionLaunch(b)]_vars

\* A trigger invocation failed and its notification was delivered again;
\* the second invocation wrote IN_PROGRESS and launched the one execution.
C18_Witness ==
    /\ budget = 1
    /\ Len(execs) = 1
    /\ execs[1].pc = "get_labels"
    /\ trig[execs[1].blob] = "idle"
    /\ notif[execs[1].blob] = 0
    /\ watch[execs[1].blob] = "waiting"
    /\ store[execs[1].blob].status = IN_PROGRESS

----------------------------------------------------------------------------
(* Claims about the order of registration's side effects.                  *)

----------------------------------------------------------------------------
(* Claims about termination.                                               *)

====
